---------------------------- MODULE Spec2Model ----------------------------
(***************************************************************************)
(* BotoS3Client of lib/s3.py: get / put / delete / list on one S3 bucket,  *)
(* dispatched at every call on the test 'boto3' in sys.modules to the boto *)
(* or the boto3 code path.                                                 *)
(*                                                                         *)
(* Two processes run side by side and receive the same calls: "boto3", in  *)
(* which the module-level import of boto3 succeeded, and "boto", in which  *)
(* it failed and S3Connection and Key were imported instead.  Each process *)
(* has its own S3 service (holding one bucket), local file system and      *)
(* client instance.  The SDK and the service are modelled by what the      *)
(* calls made in lib/s3.py observe of them.                                *)
(***************************************************************************)
EXTENDS Naturals, Sequences, FiniteSets, TLC

VARIABLES sysModules, client, s3, files, last

vars == <<sysModules, client, s3, files, last>>

(***************************************************************************)
(* Bounds and value universes.                                             *)
(***************************************************************************)
NumKeys == 2

Digits == <<"1", "2", "3", "4", "5">>

\* test/s3.py line 13: kKeys = ('s3-key-1', 's3-key-2', ...); the common stem
\* is shortened to one character.
kKeys == {<<"k", Digits[i]>> : i \in 1..NumKeys}

\* One more key that shares no prefix with kKeys.
Keys == kKeys \cup {<<"j">>}

\* str(index) bodies of the test objects.
Contents == {<<"0">>, <<"1">>}

\* Python's None, for an optional string argument and for an optional prefix.
None == "None"
NonePrefix == <<"None">>

Prefixes ==
  {NonePrefix} \cup {SubSeq(k, 1, n) : k \in Keys, n \in 0..1} \cup Keys \cup {<<"x">>}

LocalPaths == {"/tmp/downloaded"}

\* How the backend answers a call's request: it serves it, the service
\* answers with an error status (403, 500, ...), or the connection fails.
\* The code tells the last two apart only in get; for the other calls one
\* failure stands for both.
Faults == {"none", "service", "transport"}
RequestFaults == {"none", "service"}

Procs == {"boto", "boto3"}

\* The bucket created by setup_module, and the names a caller may ask for.
Buckets == {"example-bucket"}
BucketNames == {"example-bucket", "no-such-bucket"}

\* Sections of the configuration that hold the two credential keys.
ConfigSections == {"aws"}
CredentialArgs == {None, "aws", "absent-section"}

\* An optional object body: <<>> is "no object", <<c>> is the body c.
NoObject == <<>>
Some(c) == <<c>>

\* put's data argument: a file-like object yielding body, or a local path.
StreamData(c) == [hasRead |-> TRUE, body |-> c, path |-> ""]
PathData(f) == [hasRead |-> FALSE, body |-> <<>>, path |-> f]
DataArgs == {StreamData(c) : c \in Contents} \cup {PathData(f) : f \in LocalPaths}

(***************************************************************************)
(* Return values of a call.                                                *)
(***************************************************************************)
Ret(kind) == [kind |-> kind, exc |-> "", buf |-> <<>>, pos |-> 0, keys |-> {}]
RNone == Ret("None")
RTrue == Ret("True")
RClient == Ret("client")
RNoCall == Ret("nocall")
RRaise(e) == [Ret("raise") EXCEPT !.exc = e]
RStream(io) == [Ret("stream") EXCEPT !.buf = io.buf, !.pos = io.pos]
RKeys(ks) == [Ret("keys") EXCEPT !.keys = ks]

(***************************************************************************)
(* io.BytesIO as lib/s3.py uses it.                                        *)
(***************************************************************************)
BytesIO == [buf |-> <<>>, pos |-> 0]

Write(io, bytes) ==
  [buf |-> SubSeq(io.buf, 1, io.pos) \o bytes
             \o SubSeq(io.buf, io.pos + Len(bytes) + 1, Len(io.buf)),
   pos |-> io.pos + Len(bytes)]

RewindForgotten(io) == io

\* contents.seek(0) / s3_obj.seek(0)
Rewind(io) == [io EXCEPT !.pos = 0]

(***************************************************************************)
(* The S3 service and the two SDKs, as seen from the calls of lib/s3.py.   *)
(* h is the client (self): h.sdk is the SDK whose object self.bucket is,   *)
(* h.bucket the bucket name.  Each operator returns exc = "" on success.   *)
(***************************************************************************)
BucketExists(name) == name \in Buckets

RECURSIVE StartsWith(_, _)
StartsWith(key, prefix) ==
  IF prefix = <<>> THEN TRUE
  ELSE IF key = <<>> THEN FALSE
  ELSE Head(key) = Head(prefix) /\ StartsWith(Tail(key), Tail(prefix))

S3List(store, prefix) ==
  {k \in Keys : store[k] # NoObject /\ StartsWith(k, prefix)}

\* What a failed request raises in each SDK.
BotoFault(fault) ==
  IF fault = "service" THEN "S3ResponseError" ELSE "socket.error"

Boto3Fault(fault) ==
  IF fault = "service" THEN "ClientError" ELSE "EndpointConnectionError"

\* boto: Bucket.get_key(key): None on 404, S3ResponseError on another status.
BotoGetKey(h, store, key, fault) ==
  IF h.sdk # "boto" THEN [exc |-> "AttributeError", obj |-> NoObject]
  ELSE IF fault # "none" THEN [exc |-> BotoFault(fault), obj |-> NoObject]
  ELSE [exc |-> "", obj |-> store[key]]

\* boto: Key.set_contents_from_file / set_contents_from_filename.
BotoSetContents(store, fs, key, data, fault) ==
  IF ~data.hasRead /\ fs[data.path] = NoObject THEN [exc |-> "IOError", store |-> store]
  ELSE IF fault # "none" THEN [exc |-> BotoFault(fault), store |-> store]
  ELSE [exc |-> "",
        store |-> [store EXCEPT ![key] =
                     IF data.hasRead THEN Some(data.body) ELSE fs[data.path]]]

\* boto: Key.delete(); the service answers 204 whether or not the key exists.
BotoKeyDelete(store, key, fault) ==
  IF fault # "none" THEN [exc |-> BotoFault(fault), store |-> store]
  ELSE [exc |-> "", store |-> [store EXCEPT ![key] = NoObject]]

\* boto: Bucket.list(prefix=...), iterated by the caller.
BotoBucketList(h, store, prefix, fault) ==
  IF h.sdk # "boto" THEN [exc |-> "AttributeError", keys |-> {}]
  ELSE IF fault # "none" THEN [exc |-> BotoFault(fault), keys |-> {}]
  ELSE [exc |-> "", keys |-> S3List(store, prefix)]

\* boto: S3Connection.get_bucket(name), which validates with a HEAD request.
BotoGetBucket(name) ==
  IF ~BucketExists(name) THEN "S3ResponseError" ELSE ""

\* boto3: Bucket.download_fileobj / download_file: a ClientError for a missing
\* key or bucket and for any other error response of the service.
Boto3Download(h, store, key, fault) ==
  IF h.sdk # "boto3" THEN [exc |-> "AttributeError", obj |-> NoObject]
  ELSE IF fault # "none" THEN [exc |-> Boto3Fault(fault), obj |-> NoObject]
  ELSE IF ~BucketExists(h.bucket) \/ store[key] = NoObject
       THEN [exc |-> "ClientError", obj |-> NoObject]
  ELSE [exc |-> "", obj |-> store[key]]

\* boto3: Bucket.upload_fileobj / upload_file.
Boto3Upload(h, store, fs, key, data, fault) ==
  IF h.sdk # "boto3" THEN [exc |-> "AttributeError", store |-> store]
  ELSE IF ~data.hasRead /\ fs[data.path] = NoObject THEN [exc |-> "IOError", store |-> store]
  ELSE IF fault = "transport" THEN [exc |-> Boto3Fault(fault), store |-> store]
  ELSE IF fault = "service" \/ ~BucketExists(h.bucket)
       THEN [exc |-> "S3UploadFailedError", store |-> store]
  ELSE [exc |-> "",
        store |-> [store EXCEPT ![key] =
                     IF data.hasRead THEN Some(data.body) ELSE fs[data.path]]]

\* boto3: Bucket.delete_objects(Delete={'Objects': [...]}).
Boto3DeleteObjects(h, store, keys, fault) ==
  IF h.sdk # "boto3" THEN [exc |-> "AttributeError", store |-> store]
  ELSE IF fault # "none" THEN [exc |-> Boto3Fault(fault), store |-> store]
  ELSE IF ~BucketExists(h.bucket) THEN [exc |-> "ClientError", store |-> store]
  ELSE [exc |-> "",
        store |-> [k \in Keys |-> IF k \in keys THEN NoObject ELSE store[k]]]

\* boto3: Bucket.objects.all() / .filter(Prefix=...), iterated by the caller.
Boto3Objects(h, store, prefix, fault) ==
  IF h.sdk # "boto3" THEN [exc |-> "AttributeError", keys |-> {}]
  ELSE IF fault # "none" THEN [exc |-> Boto3Fault(fault), keys |-> {}]
  ELSE IF ~BucketExists(h.bucket) THEN [exc |-> "ClientError", keys |-> {}]
  ELSE [exc |-> "", keys |-> S3List(store, prefix)]


(***************************************************************************)
(* BotoS3Client.  loaded is the value of  'boto3' in sys.modules  at the   *)
(* call; p is the process, that is, which names the import at the top of   *)
(* lib/s3.py bound: boto3 in "boto3", S3Connection and Key in "boto".      *)
(* A method returns its return value (or the exception it lets through),   *)
(* the bucket's objects and the local files after the call.                *)
(***************************************************************************)
NoClient == [ready |-> FALSE, sdk |-> "none", bucket |-> ""]

Outcome(ret, store, fs) == [ret |-> ret, store |-> store, fs |-> fs]

\* 'boto3' in sys.modules selects the code path.
Variant(loaded) == IF loaded THEN "boto3" ELSE "boto"

\* __init__
BotoS3ClientInit(p, loaded, bucket, credentials) ==
  IF credentials # None /\ credentials \notin ConfigSections
  THEN [ret |-> RRaise("NoSectionError"), client |-> NoClient]
  ELSE IF loaded
  THEN IF p # "boto3"
       THEN [ret |-> RRaise("NameError"), client |-> NoClient]
       ELSE [ret |-> RClient,
             client |-> [ready |-> TRUE, sdk |-> "boto3", bucket |-> bucket]]
  ELSE IF p # "boto"
       THEN [ret |-> RRaise("NameError"), client |-> NoClient]
       ELSE LET exc == BotoGetBucket(bucket)
            IN  IF exc # ""
                THEN [ret |-> RRaise(exc), client |-> NoClient]
                ELSE [ret |-> RClient,
                      client |-> [ready |-> TRUE, sdk |-> "boto", bucket |-> bucket]]

ExceptNothing(exc) == FALSE

\* except botocore.exceptions.ClientError
ExceptClientError(exc) == exc = "ClientError"

\* __boto3_get__
boto3_get(self, store, fs, key, local_file, fault) ==
  LET s3_obj == BytesIO
      dl == Boto3Download(self, store, key, fault)
  IN  IF dl.exc # ""
      THEN IF ExceptClientError(dl.exc)
           THEN Outcome(RNone, store, fs)
           ELSE Outcome(RRaise(dl.exc), store, fs)
      ELSE IF local_file = None
           THEN Outcome(RStream(Rewind(Write(s3_obj, dl.obj[1]))), store, fs)
           ELSE Outcome(RTrue, store, [fs EXCEPT ![local_file] = dl.obj])

\* get
get(p, loaded, self, store, fs, key, local_file, fault) ==
  IF loaded THEN boto3_get(self, store, fs, key, local_file, fault)
  ELSE LET fetched_key == BotoGetKey(self, store, key, fault)
       IN  IF fetched_key.exc # ""
           THEN Outcome(RRaise(fetched_key.exc), store, fs)
           ELSE IF fetched_key.obj = NoObject
           THEN Outcome(RNone, store, fs)
           ELSE IF local_file = None
           THEN Outcome(RStream(Rewind(Write(BytesIO, fetched_key.obj[1]))), store, fs)
           ELSE Outcome(RNone, store, [fs EXCEPT ![local_file] = fetched_key.obj])

\* __boto3_put__
boto3_put(self, store, fs, key, data, fault) ==
  LET up == Boto3Upload(self, store, fs, key, data, fault)
  IN  IF up.exc # ""
      THEN Outcome(RRaise(up.exc), store, fs)
      ELSE Outcome(RNone, up.store, fs)

\* put
put(p, loaded, self, store, fs, key, data, fault) ==
  IF loaded THEN boto3_put(self, store, fs, key, data, fault)
  ELSE IF p # "boto" THEN Outcome(RRaise("NameError"), store, fs)
  ELSE LET up == BotoSetContents(store, fs, key, data, fault)
       IN  IF up.exc # ""
           THEN Outcome(RRaise(up.exc), store, fs)
           ELSE Outcome(RNone, up.store, fs)

DelObjectEveryKey(key) == Keys

\* delObject = {'Objects': [{'Key': key}]}
DelObject(key) == {key}

\* __boto3_delete__
boto3_delete(self, store, fs, key, fault) ==
  LET del == Boto3DeleteObjects(self, store, DelObject(key), fault)
  IN  IF del.exc # ""
      THEN Outcome(RRaise(del.exc), store, fs)
      ELSE Outcome(RNone, del.store, fs)

deleteWithoutRequest(p, loaded, self, store, fs, key, fault) ==
  Outcome(RNone, store, fs)

\* delete
delete(p, loaded, self, store, fs, key, fault) ==
  IF loaded THEN boto3_delete(self, store, fs, key, fault)
  ELSE IF p # "boto" THEN Outcome(RRaise("NameError"), store, fs)
  ELSE LET del == BotoKeyDelete(store, key, fault)
       IN  IF del.exc # ""
           THEN Outcome(RRaise(del.exc), store, fs)
           ELSE Outcome(RNone, del.store, fs)

boto3_listIgnoringPrefix(self, store, fs, prefix, fault) ==
  LET ls == Boto3Objects(self, store, <<>>, fault)
  IN  IF ls.exc # ""
      THEN Outcome(RRaise(ls.exc), store, fs)
      ELSE Outcome(RKeys(ls.keys), store, fs)

\* __boto3_list__
boto3_list(self, store, fs, prefix, fault) ==
  LET ls == IF prefix = NonePrefix
            THEN Boto3Objects(self, store, <<>>, fault)
            ELSE Boto3Objects(self, store, prefix, fault)
  IN  IF ls.exc # ""
      THEN Outcome(RRaise(ls.exc), store, fs)
      ELSE Outcome(RKeys(ls.keys), store, fs)

\* list
list(p, loaded, self, store, fs, prefix, fault) ==
  IF loaded THEN boto3_list(self, store, fs, prefix, fault)
  ELSE LET ls == BotoBucketList(self, store,
                                IF prefix = NonePrefix THEN <<>> ELSE prefix, fault)
       IN  IF ls.exc # ""
           THEN Outcome(RRaise(ls.exc), store, fs)
           ELSE Outcome(RKeys(ls.keys), store, fs)

(***************************************************************************)
(* The record of the latest call: its arguments, per process the code path *)
(* taken, the value returned and the object at the key before the call,    *)
(* and, for a get, what the call right before it did to the same key.      *)
(***************************************************************************)
NoHist == [after |-> "other", body |-> <<>>, before |-> NoObject]

Call(op) ==
  [op |-> op, bucket |-> "", credentials |-> None, key |-> <<>>,
   local_file |-> None, data |-> StreamData(<<>>), prefix |-> NonePrefix,
   fault |-> "none",
   dispatch |-> [p \in Procs |-> "none"],
   ret |-> [p \in Procs |-> RNoCall],
   before |-> [p \in Procs |-> NoObject],
   hist |-> [p \in Procs |-> NoHist]]

\* The body a put stored: the stream's, or that of the local file it named.
PutBody(p) ==
  IF last.data.hasRead THEN last.data.body ELSE files[p][last.data.path][1]

\* For a get of key: the successful put or delete of the same key that the
\* process made in the call right before.
HistOf(p, key) ==
  IF last.key = key /\ last.op = "put" /\ last.ret[p] = RNone
  THEN [after |-> "put", body |-> PutBody(p), before |-> last.before[p]]
  ELSE IF last.key = key /\ last.op = "delete" /\ last.ret[p] = RNone
  THEN [after |-> "delete", body |-> <<>>, before |-> last.before[p]]
  ELSE NoHist

Init ==
  /\ sysModules = [p \in Procs |-> p = "boto3"]
  /\ client = [p \in Procs |-> NoClient]
  /\ s3 = [p \in Procs |-> [k \in Keys |-> NoObject]]
  /\ files = [p \in Procs |-> [f \in LocalPaths |-> NoObject]]
  /\ last = Call("init")

\* BotoS3Client(config, bucket, credentials) in both processes.
Construct(bucket, credentials) ==
  LET out == [p \in Procs |->
                BotoS3ClientInit(p, sysModules[p], bucket, credentials)]
  IN  /\ client' = [p \in Procs |-> out[p].client]
      /\ last' = [Call("construct") EXCEPT
                    !.bucket = bucket, !.credentials = credentials,
                    !.dispatch = [p \in Procs |-> Variant(sysModules[p])],
                    !.ret = [p \in Procs |-> out[p].ret]]
      /\ UNCHANGED <<sysModules, s3, files>>

\* The object at key in the bucket the process's client is bound to.
ObjectAt(p, key) ==
  IF client[p].ready /\ BucketExists(client[p].bucket) THEN s3[p][key] ELSE NoObject

\* What a call leaves in a process that holds no client: nothing happens.
Skip(p) == Outcome(RNoCall, s3[p], files[p])

Dispatch == [p \in Procs |-> IF client[p].ready THEN Variant(sysModules[p]) ELSE "none"]

Get(key, local_file, fault) ==
  LET out == [p \in Procs |->
                IF client[p].ready
                THEN get(p, sysModules[p], client[p], s3[p], files[p], key, local_file, fault)
                ELSE Skip(p)]
  IN  /\ \E p \in Procs : client[p].ready
      /\ s3' = [p \in Procs |-> out[p].store]
      /\ files' = [p \in Procs |-> out[p].fs]
      /\ last' = [Call("get") EXCEPT
                    !.key = key, !.local_file = local_file, !.fault = fault,
                    !.dispatch = Dispatch,
                    !.ret = [p \in Procs |-> out[p].ret],
                    !.before = [p \in Procs |-> ObjectAt(p, key)],
                    !.hist = [p \in Procs |-> HistOf(p, key)]]
      /\ UNCHANGED <<sysModules, client>>

Put(key, data, fault) ==
  LET out == [p \in Procs |->
                IF client[p].ready
                THEN put(p, sysModules[p], client[p], s3[p], files[p], key, data, fault)
                ELSE Skip(p)]
  IN  /\ \E p \in Procs : client[p].ready
      /\ s3' = [p \in Procs |-> out[p].store]
      /\ files' = [p \in Procs |-> out[p].fs]
      /\ last' = [Call("put") EXCEPT
                    !.key = key, !.data = data, !.fault = fault,
                    !.dispatch = Dispatch,
                    !.ret = [p \in Procs |-> out[p].ret],
                    !.before = [p \in Procs |-> ObjectAt(p, key)]]
      /\ UNCHANGED <<sysModules, client>>

Delete(key, fault) ==
  LET out == [p \in Procs |->
                IF client[p].ready
                THEN delete(p, sysModules[p], client[p], s3[p], files[p], key, fault)
                ELSE Skip(p)]
  IN  /\ \E p \in Procs : client[p].ready
      /\ s3' = [p \in Procs |-> out[p].store]
      /\ files' = [p \in Procs |-> out[p].fs]
      /\ last' = [Call("delete") EXCEPT
                    !.key = key, !.fault = fault,
                    !.dispatch = Dispatch,
                    !.ret = [p \in Procs |-> out[p].ret],
                    !.before = [p \in Procs |-> ObjectAt(p, key)]]
      /\ UNCHANGED <<sysModules, client>>

\* list(prefix), the returned collection iterated to its end by the caller.
List(prefix, fault) ==
  LET out == [p \in Procs |->
                IF client[p].ready
                THEN list(p, sysModules[p], client[p], s3[p], files[p], prefix, fault)
                ELSE Skip(p)]
  IN  /\ \E p \in Procs : client[p].ready
      /\ s3' = [p \in Procs |-> out[p].store]
      /\ files' = [p \in Procs |-> out[p].fs]
      /\ last' = [Call("list") EXCEPT
                    !.prefix = prefix, !.fault = fault,
                    !.dispatch = Dispatch,
                    !.ret = [p \in Procs |-> out[p].ret]]
      /\ UNCHANGED <<sysModules, client>>

\* The set of loaded modules changes under the clients: where boto3 was not
\* loaded another module imports it, where it was it is removed from
\* sys.modules; a second change puts it back.
SysModulesChange ==
  /\ sysModules' = [p \in Procs |-> ~sysModules[p]]
  /\ last' = Call("sysmodules")
  /\ UNCHANGED <<client, s3, files>>

Next ==
  \/ \E b \in BucketNames, c \in CredentialArgs : Construct(b, c)
  \/ \E k \in Keys, lf \in {None} \cup LocalPaths, f \in Faults : Get(k, lf, f)
  \/ \E k \in Keys, d \in DataArgs, f \in RequestFaults : Put(k, d, f)
  \/ \E k \in Keys, f \in RequestFaults : Delete(k, f)
  \/ \E x \in Prefixes, f \in RequestFaults : List(x, f)

\* The process's set of loaded modules stays as the import left it.
Spec == Init /\ [][Next]_vars

NextModules ==
  \/ Next
  \/ SysModulesChange

\* The set of loaded modules may change at any time.
SpecModules == Init /\ [][NextModules]_vars

(***************************************************************************)
(* Properties.                                                             *)
(***************************************************************************)
Ops == {"get", "put", "delete", "list"}

Ready(p) == client[p].ready

\* The process's client is bound to a bucket that exists.
Bound(p) == Ready(p) /\ BucketExists(client[p].bucket)

\* prefix is an initial segment of key.
IsPrefix(prefix, key) ==
  Len(prefix) <= Len(key) /\ SubSeq(key, 1, Len(prefix)) = prefix

StoredKeys(p) == {k \in Keys : s3[p][k] # NoObject}

\* C1: in either process, a get(k) without local_file that the backend serves
\* and that comes right after a successful put(k, d) returns a stream holding
\* exactly d, positioned at offset 0, whatever k held before the put.
C1_PutThenGet ==
  \A p \in Procs :
    (last.op = "get" /\ last.local_file = None /\ last.fault = "none"
       /\ last.hist[p].after = "put")
    => last.ret[p] = RStream([buf |-> last.hist[p].body, pos |-> 0])

\* In both processes a put has overwritten a different body and the get that
\* followed returned a stream.
C1_Witness ==
  \A p \in Procs :
    /\ last.op = "get" /\ last.local_file = None /\ last.fault = "none"
    /\ last.hist[p].after = "put"
    /\ last.hist[p].before \notin {NoObject, Some(last.hist[p].body)}
    /\ last.ret[p].kind = "stream"

\* C2: in either process, a get (with or without local_file) that the backend
\* serves, of a key that is not in the client's bucket, returns None and does
\* not raise.
C2_GetAbsent ==
  \A p \in Procs :
    (last.op = "get" /\ Ready(p) /\ last.fault = "none" /\ last.before[p] = NoObject)
    => last.ret[p] = RNone

\* Both processes got None for an absent key of a bucket that holds other
\* objects, with a local_file given, and no file was written.
C2_Witness ==
  \A p \in Procs :
    /\ last.op = "get" /\ Bound(p) /\ last.fault = "none"
    /\ last.local_file \in LocalPaths
    /\ last.before[p] = NoObject
    /\ StoredKeys(p) # {}
    /\ files[p][last.local_file] = NoObject
    /\ last.ret[p] = RNone

C3_DeleteState ==
  \A p \in Procs :
    /\ (last.op = "delete" /\ Bound(p) /\ last.fault = "none")
       => last.ret[p] = RNone
    /\ (last.op = "get" /\ last.fault = "none" /\ last.hist[p].after = "delete")
       => last.ret[p] = RNone

C3_DeleteStep ==
  \A p \in Procs :
    (last'.op = "delete" /\ ObjectAt(p, last'.key) = NoObject) => s3'[p] = s3[p]

\* C3: in either process, a delete(k) that the backend serves returns without
\* error whether or not k is present, a get(k) right after it returns None,
\* and a delete of an absent key leaves the bucket's objects as they were.
C3_Delete == [](C3_DeleteState) /\ [][C3_DeleteStep]_vars

\* Both processes deleted a key that was present, and the get that followed
\* returned None.
C3_Witness ==
  \A p \in Procs :
    /\ last.op = "get" /\ last.fault = "none"
    /\ last.hist[p].after = "delete"
    /\ last.hist[p].before # NoObject
    /\ last.ret[p] = RNone

\* C4: in either process, a list(prefix) that the backend serves yields exactly
\* the keys now in the bucket that start with prefix, every key for prefix
\* None, and the empty collection (no error) when no key matches.
C4_List ==
  \A p \in Procs :
    (last.op = "list" /\ Bound(p) /\ last.fault = "none")
    => last.ret[p] =
         RKeys({k \in StoredKeys(p) :
                  last.prefix = NonePrefix \/ IsPrefix(last.prefix, k)})

\* Both processes listed a prefix that some but not all stored keys start with.
C4_Witness ==
  \A p \in Procs :
    /\ last.op = "list" /\ Bound(p) /\ last.fault = "none"
    /\ last.prefix # NonePrefix
    /\ last.ret[p].kind = "keys"
    /\ last.ret[p].keys # {}
    /\ last.ret[p].keys # StoredKeys(p)

\* What a caller can tell apart: an exception counts as one, whatever its class.
Observable(r) == IF r.kind = "raise" THEN RRaise("") ELSE r

\* C5: at every get/put/delete/list call that the backend serves and that both
\* clients receive, the boto client and the boto3 client return the same value
\* and leave the same bucket contents and local files.
C5_Equivalent ==
  (last.op \in Ops /\ last.fault = "none" /\ \A p \in Procs : Ready(p))
  => /\ Observable(last.ret["boto"]) = Observable(last.ret["boto3"])
     /\ s3["boto"] = s3["boto3"]
     /\ files["boto"] = files["boto3"]

\* C6: every call on a client runs the code path of the SDK that built the
\* client's bucket handle, also after the set of loaded modules has changed.
C6_DispatchFixed ==
  \A p \in Procs :
    (last.op \in Ops /\ Ready(p)) => last.dispatch[p] = client[p].sdk

\* C7: on a client bound to an existing bucket, a get whose request the backend
\* fails raises, and a get without local_file returns None only for a key
\* that is absent.
C7_NotFoundOnlyWhenAbsent ==
  \A p \in Procs :
    (last.op = "get" /\ Bound(p))
    => /\ last.fault # "none" => last.ret[p].kind = "raise"
       /\ (last.fault = "none" /\ last.local_file = None /\ last.ret[p] = RNone)
          => last.before[p] = NoObject

\* C8: a get with local_file of a key that is present, served by the backend,
\* writes the object's body to the file and returns a value other than None.
C8_GetToFile ==
  \A p \in Procs :
    (last.op = "get" /\ Ready(p) /\ last.fault = "none"
       /\ last.local_file \in LocalPaths /\ last.before[p] # NoObject)
    => /\ files[p][last.local_file] = last.before[p]
       /\ last.ret[p].kind # "raise"
       /\ last.ret[p] # RNone

\* C9: no client is ever ready while bound to a bucket that does not exist.
C9_NoClientOnMissingBucket ==
  \A p \in Procs : Ready(p) => BucketExists(client[p].bucket)

\* C10: put(k, d) and delete(k) change the bucket's objects at most at k, and
\* every other step leaves the bucket's objects as they were.
C10_Frame ==
  [][\A p \in Procs :
       /\ last'.op \in {"put", "delete"}
          => \A k \in Keys \ {last'.key} : s3'[p][k] = s3[p][k]
       /\ last'.op \notin {"put", "delete"} => s3'[p] = s3[p]]_vars

\* Both processes deleted a present key from a bucket in which two other
\* objects stay.
C10_Witness ==
  \A p \in Procs :
    /\ last.op = "delete" /\ last.ret[p] = RNone
    /\ last.before[p] # NoObject
    /\ s3[p][last.key] = NoObject
    /\ Cardinality(StoredKeys(p)) >= 2

=============================================================================
